---- MODULE Spec2Model ----
(***************************************************************************)
(* Model of internal/pwru/output.go: the renderer that turns one decoded   *)
(* trace event into one record of the output, using the per-skb clock      *)
(* (lastSeenSkb), the symbol table (addr2name) and the two kernel-populated*)
(* side tables (printStackMap, printSkbMap).                               *)
(*                                                                         *)
(* Print is modelled as the sequence of its accesses to shared state: the  *)
(* kernel-side producer may write the side tables between any two of them. *)
(***************************************************************************)
EXTENDS Integers, Sequences, FiniteSets, TLC

(***************************************************************************)
(* Bounds of the model.                                                    *)
(***************************************************************************)
\* uint64 arithmetic is modelled at this width (the code's width is 64).
WordBits == 16
\* Number of records written in a run of the clock specification.
MaxPrints == 4
\* Number of records written in a run of the address specification.
MaxAddrPrints == 1
\* Number of records written in a run of the side-table specification.
MaxTablePrints == 2
\* Number of records written in a run of the protocol specification.
MaxProtoPrints == 1
\* Number of records written in a run of the wrap-around specification.
MaxWrapPrints == 2

Modulus == 2 ^ WordBits
MaxWord == Modulus - 1

\* SubU64 stopping at zero instead of wrapping.
MutSubU64Saturating(a, b) == IF a >= b THEN a - b ELSE 0

\* uint64 subtraction: wraps modulo 2^width.
SubU64(a, b) == (a - b + Modulus) % Modulus

(***************************************************************************)
(* Text formatting.                                                        *)
(***************************************************************************)
HexDigit(d) ==
    <<"0", "1", "2", "3", "4", "5", "6", "7",
      "8", "9", "a", "b", "c", "d", "e", "f">>[d + 1]

RECURSIVE HexDigits(_)
HexDigits(n) ==
    IF n < 16 THEN HexDigit(n)
    ELSE HexDigits(n \div 16) \o HexDigit(n % 16)

\* fmt.Sprintf("0x%x", n)
SprintfHex(n) == "0x" \o HexDigits(n)

(***************************************************************************)
(* Partial maps (Go maps and eBPF maps): functions on the set of keys      *)
(* present.                                                                *)
(***************************************************************************)
EmptyMap == [k \in {} |-> 0]
MapPut(m, k, v) == [x \in DOMAIN m \cup {k} |-> IF x = k THEN v ELSE m[x]]
MapDelete(m, k) == [x \in DOMAIN m \ {k} |-> m[x]]

(***************************************************************************)
(* The program's state.                                                    *)
(***************************************************************************)
VARIABLES
    flags,          \* output.flags: OutputTS, OutputMeta, OutputTuple, OutputStack, OutputSkb
    GOARCH,         \* runtime.GOARCH of the build
    kprobeMulti,    \* output.kprobeMulti
    addr2name,      \* output.addr2name.Addr2NameMap: address -> symbol name
    lastSeenSkb,    \* output.lastSeenSkb: skb address -> last seen timestamp
    printStackMap,  \* output.printStackMap: stack id -> stack snapshot
    printSkbMap,    \* output.printSkbMap: skb id -> dump text
    header,         \* output.writer: the header line, <<>> until PrintHeader has run
    writer,         \* output.writer: the records written, the last one possibly open
    pc,             \* position of Print
    event,          \* the event Print is handling
    stack,          \* Print's local copy of the snapshot it looked up (line 118)
    syscalls,       \* the side-table calls the current Print has issued, in order
    stored,         \* per stack id, the snapshots the producer has ever stored
    consumed        \* side-table entries Print has fetched, not rewritten since

vars == <<flags, GOARCH, kprobeMulti, addr2name, lastSeenSkb, printStackMap,
          printSkbMap, header, writer, pc, event, stack, syscalls, stored,
          consumed>>

config == <<flags, GOARCH, kprobeMulti, addr2name>>

(***************************************************************************)
(* The OS process table consulted by ps.FindProcess.                       *)
(***************************************************************************)
Processes == [p \in {1} |-> "init"]

\* Print, lines 64-68
ExecName(pid) == IF pid \in DOMAIN Processes THEN Processes[pid] ELSE "<empty>"

(***************************************************************************)
(* Timestamp column.                                                       *)
(***************************************************************************)
\* RenderTs without the zero of an skb's first event.
MutRenderTsAbsoluteFirst(mode, clock, e) ==
    IF mode = "relative" /\ e.SAddr \in DOMAIN clock
    THEN SubU64(e.Timestamp, clock[e.SAddr])
    ELSE e.Timestamp

\* Print, lines 69-76
RenderTs(mode, clock, e) ==
    IF mode = "relative"
    THEN IF e.SAddr \in DOMAIN clock
         THEN SubU64(e.Timestamp, clock[e.SAddr])
         ELSE 0
    ELSE e.Timestamp

\* UpdateLastSeen keeping the clock only in relative mode.
MutUpdateLastSeenOnlyRelative(mode, clock, e) ==
    IF mode = "relative" THEN MapPut(clock, e.SAddr, e.Timestamp) ELSE clock

\* Print, line 104
UpdateLastSeen(mode, clock, e) == MapPut(clock, e.SAddr, e.Timestamp)

(***************************************************************************)
(* Address normalisation and function-name resolution.                     *)
(***************************************************************************)
\* NormalizeAddr ignoring the attachment mechanism.
MutNormalizeAddrAlwaysMinusOne(arch, multi, raw) ==
    CASE arch = "amd64" -> SubU64(raw, 1)
      [] arch = "arm64" -> raw
      [] OTHER -> 0

\* Print, lines 77-87: no case of the switch matches another architecture,
\* which leaves addr at its zero value.
NormalizeAddr(arch, multi, raw) ==
    CASE arch = "amd64" -> IF ~multi THEN SubU64(raw, 1) ELSE raw
      [] arch = "arm64" -> raw
      [] OTHER -> 0

\* FuncName trying the address minus 4 on every architecture.
MutFuncNameMinus4AnyArch(arch, table, addr) ==
    IF addr \in DOMAIN table THEN table[addr]
    ELSE IF SubU64(addr, 4) \in DOMAIN table THEN table[SubU64(addr, 4)]
    ELSE SprintfHex(addr)

\* Print, lines 88-98
FuncName(arch, table, addr) ==
    IF addr \in DOMAIN table THEN table[addr]
    ELSE IF arch = "amd64" /\ SubU64(addr, 4) \in DOMAIN table
         THEN table[SubU64(addr, 4)]
    ELSE SprintfHex(addr)

(***************************************************************************)
(* Tuple section.                                                          *)
(***************************************************************************)
IPPROTO_ICMP == 1
IPPROTO_TCP == 6
IPPROTO_UDP == 17
IPPROTO_ICMPV6 == 58

\* protoToStr without the case of ICMPv6.
MutProtoToStrNoIcmp6(proto) ==
    CASE proto = IPPROTO_TCP -> "tcp"
      [] proto = IPPROTO_UDP -> "udp"
      [] proto = IPPROTO_ICMP -> "icmp"
      [] OTHER -> ""

\* protoToStr, lines 140-153
protoToStr(proto) ==
    CASE proto = IPPROTO_TCP -> "tcp"
      [] proto = IPPROTO_UDP -> "udp"
      [] proto = IPPROTO_ICMP -> "icmp"
      [] proto = IPPROTO_ICMPV6 -> "icmp6"
      [] OTHER -> ""

(***************************************************************************)
(* Stack section.                                                          *)
(***************************************************************************)
\* Addr2Name.findNearestSym: the name of the symbol with the greatest
\* address not above ip; the stack snapshots of the model hold no address
\* below the first symbol.
findNearestSym(table, ip) ==
    LET below == {a \in DOMAIN table : a <= ip}
    IN  IF below = {} THEN "?"
        ELSE table[CHOOSE a \in below : \A b \in below : b <= a]

\* StackLines taking the first zero for the end of the snapshot.
RECURSIVE MutStackLinesStopAtZero(_, _)
MutStackLinesStopAtZero(table, ips) ==
    IF ips = <<>> \/ Head(ips) = 0 THEN <<>>
    ELSE <<findNearestSym(table, Head(ips))>>
         \o MutStackLinesStopAtZero(table, Tail(ips))

\* Print, lines 121-125: one line per non-zero ip, in stored order.
RECURSIVE StackLines(_, _)
StackLines(table, ips) ==
    IF ips = <<>> THEN <<>>
    ELSE (IF Head(ips) > 0 THEN <<findNearestSym(table, Head(ips))>> ELSE <<>>)
         \o StackLines(table, Tail(ips))

\* The zero value of StackData, line 118 (StackData.IPs is a fixed array).
ZeroStack == <<0, 0, 0>>

\* StackKey taking the id of the dump instead.
MutStackKeySkbId(e) == e.PrintSkbId

\* Print, line 119: the key of the stack lookup and of the delete.
StackKey(e) == e.PrintStackId

\* StackWanted without the test of the flag.
MutStackWantedIgnoresFlag(f, e) == e.PrintStackId > 0

\* Print, line 117
StackWanted(f, e) == f.OutputStack /\ e.PrintStackId > 0

\* Print, line 131: the key of the dump lookup.
SkbKey(e) == e.PrintSkbId

\* Print, line 130
SkbWanted(f, e) == f.OutputSkb

(***************************************************************************)
(* The record under construction is the last one of the writer.            *)
(***************************************************************************)
Last(s) == s[Len(s)]
SetLast(s, r) == [s EXCEPT ![Len(s)] = r]

\* Print, lines 99-115: the fixed columns, the timestamp column, the meta
\* and tuple sections.  The fields event and addr are not text: they name the event
\* the record was written for and the address its symbol was looked up at.
FixedColumns(e) ==
    [event   |-> e,
     skb     |-> SprintfHex(e.SAddr),
     cpu     |-> e.CPU,
     process |-> "[" \o ExecName(e.PID) \o "]",
     addr    |-> NormalizeAddr(GOARCH, kprobeMulti, e.Addr),
     func    |-> FuncName(GOARCH, addr2name,
                          NormalizeAddr(GOARCH, kprobeMulti, e.Addr)),
     ts      |-> IF flags.OutputTS # "none"
                 THEN <<RenderTs(flags.OutputTS, lastSeenSkb, e)>> ELSE <<>>,
     meta    |-> IF flags.OutputMeta THEN <<"meta">> ELSE <<>>,
     tuple   |-> IF flags.OutputTuple THEN <<protoToStr(e.L4Proto)>> ELSE <<>>,
     stack   |-> <<>>,
     dump    |-> <<>>,
     nl      |-> FALSE]

(***************************************************************************)
(* PrintHeader, lines 55-61.                                               *)
(***************************************************************************)
\* HeaderColumns with the timestamp column in relative mode only.
MutHeaderColumnsRelativeOnly(mode) ==
    <<"SKB", "CPU", "PROCESS", "FUNC">>
    \o (IF mode = "relative" THEN <<"TIMESTAMP">> ELSE <<>>)

\* lines 56-59
HeaderColumns(mode) ==
    <<"SKB", "CPU", "PROCESS", "FUNC">>
    \o (IF mode # "none" THEN <<"TIMESTAMP">> ELSE <<>>)

\* The caller writes the header once, between two events.
PrintHeader ==
    /\ pc = "idle"
    /\ header = <<>>
    /\ header' = HeaderColumns(flags.OutputTS)
    /\ UNCHANGED <<config, lastSeenSkb, printStackMap, printSkbMap, writer, pc,
                   event, stack, syscalls, stored, consumed>>

(***************************************************************************)
(* Print, lines 63-138.                                                    *)
(***************************************************************************)
\* lines 64-115
PrintBegin(e) ==
    /\ pc = "idle"
    /\ writer' = Append(writer, FixedColumns(e))
    /\ lastSeenSkb' = UpdateLastSeen(flags.OutputTS, lastSeenSkb, e)
    /\ event' = e
    /\ stack' = ZeroStack
    /\ syscalls' = <<>>
    /\ pc' = "stack"
    /\ UNCHANGED <<config, header, printStackMap, printSkbMap, stored, consumed>>

\* AfterStackLookup returning from Print when the lookup fails.
MutAfterStackLookupReturnOnError(ok) == IF ok THEN "delete" ELSE "idle"

\* lines 120-127: whatever the lookup returns, Print goes on to the delete.
AfterStackLookup(ok) == "delete"

\* lines 117-126
PrintStackLookup ==
    /\ pc = "stack"
    /\ IF StackWanted(flags, event)
       THEN LET id == StackKey(event)
                ok == id \in DOMAIN printStackMap
            IN  /\ syscalls' = Append(syscalls,
                        [op |-> "Lookup", map |-> "stack", id |-> id, ok |-> ok])
                /\ stack' = IF ok THEN printStackMap[id] ELSE stack
                /\ writer' = IF ok
                             THEN SetLast(writer, [Last(writer) EXCEPT
                                     !.stack = StackLines(addr2name, printStackMap[id])])
                             ELSE writer
                /\ consumed' = IF ok THEN consumed \cup {<<"stack", id>>}
                               ELSE consumed
                /\ pc' = AfterStackLookup(ok)
       ELSE /\ pc' = "skb"
            /\ UNCHANGED <<stack, syscalls, writer, consumed>>
    /\ UNCHANGED <<config, header, lastSeenSkb, printStackMap, printSkbMap, event, stored>>

\* StackDelete leaving the entry in place.
MutStackDeleteOmitted(map, id) == map

\* line 127: Map.Delete, its error ignored.
StackDelete(map, id) == MapDelete(map, id)

\* line 127
PrintStackDelete ==
    /\ pc = "delete"
    /\ LET id == StackKey(event)
       IN  /\ syscalls' = Append(syscalls,
                   [op |-> "Delete", map |-> "stack", id |-> id])
           /\ printStackMap' = StackDelete(printStackMap, id)
    /\ pc' = "skb"
    /\ UNCHANGED <<config, header, lastSeenSkb, printSkbMap, writer, event, stack,
                   stored, consumed>>

\* lines 130-135
PrintSkbLookup ==
    /\ pc = "skb"
    /\ IF SkbWanted(flags, event)
       THEN LET id == SkbKey(event)
                ok == id \in DOMAIN printSkbMap
            IN  /\ syscalls' = Append(syscalls,
                        [op |-> "Lookup", map |-> "skb", id |-> id, ok |-> ok])
                /\ writer' = IF ok
                             THEN SetLast(writer, [Last(writer) EXCEPT
                                     !.dump = <<printSkbMap[id]>>])
                             ELSE writer
                /\ consumed' = IF ok THEN consumed \cup {<<"skb", id>>}
                               ELSE consumed
       ELSE UNCHANGED <<syscalls, writer, consumed>>
    /\ pc' = "end"
    /\ UNCHANGED <<config, header, lastSeenSkb, printStackMap, printSkbMap, event,
                   stack, stored>>

\* line 137
PrintEnd ==
    /\ pc = "end"
    /\ writer' = SetLast(writer, [Last(writer) EXCEPT !.nl = TRUE])
    /\ pc' = "idle"
    /\ UNCHANGED <<config, header, lastSeenSkb, printStackMap, printSkbMap, event,
                   stack, syscalls, stored, consumed>>

(***************************************************************************)
(* The kernel-side producer: at a hit it stores a stack snapshot or a dump *)
(* under a small id, overwriting what the id held.                         *)
(***************************************************************************)
ProducerStoreStack(id, snapshot) ==
    /\ printStackMap' = MapPut(printStackMap, id, snapshot)
    /\ stored' = [stored EXCEPT ![id] = @ \cup {snapshot}]
    /\ consumed' = consumed \ {<<"stack", id>>}
    /\ UNCHANGED <<config, header, lastSeenSkb, printSkbMap, writer, pc, event,
                   stack, syscalls>>

ProducerStoreSkb(id, text) ==
    /\ printSkbMap' = MapPut(printSkbMap, id, text)
    /\ consumed' = consumed \ {<<"skb", id>>}
    /\ UNCHANGED <<config, header, lastSeenSkb, printStackMap, writer, pc, event,
                   stack, syscalls, stored>>

(***************************************************************************)
(* Inputs.                                                                 *)
(***************************************************************************)
\* An event with every field but those given at its default.
BaseEvent ==
    [SAddr |-> 171, Timestamp |-> 100, Addr |-> 8192, CPU |-> 0, PID |-> 1,
     L4Proto |-> 6, PrintStackId |-> 1, PrintSkbId |-> 1]

StackIds == {0, 1}
SkbIds == {0, 1}

\* The state after NewOutput, lines 44-52, before the first event.
InitOutput ==
    /\ lastSeenSkb = EmptyMap
    /\ header = <<>>
    /\ writer = <<>>
    /\ pc = "idle"
    /\ event = BaseEvent
    /\ stack = ZeroStack
    /\ syscalls = <<>>
    /\ stored = [id \in StackIds |-> {}]
    /\ consumed = {}

(***************************************************************************)
(* Clock specification: events of two skbs with varying timestamps, in the *)
(* three timestamp modes.                                                  *)
(***************************************************************************)
ClockEvents ==
    {[BaseEvent EXCEPT !.SAddr = k, !.Timestamp = t] :
        k \in {171, 205}, t \in {100, 150, 400}}

InitClock ==
    /\ flags \in [OutputTS : {"none", "absolute", "relative"},
                  OutputMeta : {FALSE}, OutputTuple : {FALSE},
                  OutputStack : {TRUE}, OutputSkb : {TRUE}]
    /\ GOARCH = "amd64"
    /\ kprobeMulti = TRUE
    /\ addr2name = [a \in {8192} |-> "foo"]
    /\ printStackMap = EmptyMap
    /\ printSkbMap = EmptyMap
    /\ InitOutput

NextClock ==
    \/ PrintHeader
    \/ \E e \in ClockEvents : Len(writer) < MaxPrints /\ PrintBegin(e)
    \/ PrintStackLookup
    \/ PrintStackDelete
    \/ PrintSkbLookup
    \/ PrintEnd

SpecClock == InitClock /\ [][NextClock]_vars

(***************************************************************************)
(* Properties of the timestamp column and of the clock (SpecClock).        *)
(***************************************************************************)
\* The records written before record i for the same skb.
EarlierSameSkb(i) ==
    {j \in 1..(i - 1) : writer[j].event.SAddr = writer[i].event.SAddr}

\* The latest of them.
PrevSameSkb(i) == CHOOSE j \in EarlierSameSkb(i) : \A k \in EarlierSameSkb(i) : k <= j

\* The difference of two raw timestamps in unsigned arithmetic.
ExpectedDelta(cur, prev) == IF cur >= prev THEN cur - prev ELSE cur - prev + Modulus

\* C1: in relative mode the first record of an skb shows timestamp 0 and
\* every later record of that skb shows its raw timestamp minus the raw
\* timestamp of the previous record of the same skb, however the records of
\* other skbs are interleaved.
C1_RelativeTimestamps ==
    flags.OutputTS = "relative" =>
        \A i \in 1..Len(writer) :
            writer[i].ts =
                IF EarlierSameSkb(i) = {} THEN <<0>>
                ELSE <<ExpectedDelta(writer[i].event.Timestamp,
                                     writer[PrevSameSkb(i)].event.Timestamp)>>

\* Raw timestamps 100, 150, 400 of skb 0xab show 0, 50, 250, with a record
\* of skb 0xcd written in between.
C1_Witness ==
    /\ flags.OutputTS = "relative"
    /\ Len(writer) = 4
    /\ [i \in 1..4 |-> writer[i].event.SAddr] = <<171, 205, 171, 171>>
    /\ [i \in 1..4 |-> writer[i].event.Timestamp] = <<100, 150, 150, 400>>
    /\ [i \in 1..4 |-> writer[i].ts] = << <<0>>, <<0>>, <<50>>, <<250>> >>

\* The skbs of the records written so far.
PrintedSkbs == {writer[i].event.SAddr : i \in 1..Len(writer)}

\* The last record written for skb k.
LastRecordOf(k) ==
    LET of == {i \in 1..Len(writer) : writer[i].event.SAddr = k}
    IN  writer[CHOOSE i \in of : \A j \in of : j <= i]

\* C10: in every timestamp mode the clock holds exactly one entry per skb
\* printed so far, equal to the raw timestamp of the latest record of that
\* skb.
C10_ClockTracksLastPrinted ==
    /\ DOMAIN lastSeenSkb = PrintedSkbs
    /\ \A k \in PrintedSkbs : lastSeenSkb[k] = LastRecordOf(k).event.Timestamp

\* With the timestamp column disabled: two skbs printed, one of them twice
\* with different timestamps.
C10_Witness ==
    /\ flags.OutputTS = "none"
    /\ Len(writer) = 3
    /\ [i \in 1..3 |-> writer[i].event.SAddr] = <<171, 205, 171>>
    /\ [i \in 1..3 |-> writer[i].event.Timestamp] = <<100, 150, 400>>
    /\ lastSeenSkb[171] = 400
    /\ lastSeenSkb[205] = 150

\* The columns of a record, named as in the header.
RecordColumns(r) ==
    <<"SKB", "CPU", "PROCESS", "FUNC">>
    \o (IF r.ts # <<>> THEN <<"TIMESTAMP">> ELSE <<>>)

\* C13: the header and every record have the timestamp column exactly when
\* the timestamp mode is not "none", so that they have the same columns; in
\* absolute mode the column shows the raw timestamp of the event, whatever
\* was printed before for the same skb.
C13_TimestampColumn ==
    /\ header # <<>> =>
           /\ header \in {<<"SKB", "CPU", "PROCESS", "FUNC">>,
                           <<"SKB", "CPU", "PROCESS", "FUNC", "TIMESTAMP">>}
           /\ (Len(header) = 5) <=> (flags.OutputTS # "none")
           /\ \A i \in 1..Len(writer) : RecordColumns(writer[i]) = header
    /\ \A i \in 1..Len(writer) :
           /\ (writer[i].ts # <<>>) <=> (flags.OutputTS # "none")
           /\ flags.OutputTS = "absolute" =>
                  writer[i].ts = <<writer[i].event.Timestamp>>

\* Absolute mode, the header written, two records of one skb: the second
\* shows its raw timestamp 150, not the difference to 100.
C13_Witness ==
    /\ flags.OutputTS = "absolute"
    /\ header = <<"SKB", "CPU", "PROCESS", "FUNC", "TIMESTAMP">>
    /\ Len(writer) = 2
    /\ writer[1].event.SAddr = writer[2].event.SAddr
    /\ writer[1].ts = <<100>>
    /\ writer[2].ts = <<150>>
    /\ writer[2].nl

(***************************************************************************)
(* Address specification: one event per run, over the architectures, the   *)
(* attachment mechanisms and two symbol tables.                            *)
(***************************************************************************)
\* 0x2000 -> foo
SymbolsFoo == [a \in {8192} |-> "foo"]
\* 0x2000 -> foo, 0x2004 -> bar
SymbolsFooBar == [a \in {8192, 8196} |-> IF a = 8192 THEN "foo" ELSE "bar"]

\* 0x0, 0x3, 0x1000, 0x2000, 0x2001, 0x2004, 0x2005, 0x2008
RawAddrs == {0, 3, 4096, 8192, 8193, 8196, 8197, 8200}

AddrEvents == {[BaseEvent EXCEPT !.Addr = a] : a \in RawAddrs}

InitAddr ==
    /\ flags \in [OutputTS : {"absolute"},
                  OutputMeta : {FALSE}, OutputTuple : {FALSE},
                  OutputStack : {TRUE}, OutputSkb : {TRUE}]
    /\ GOARCH \in {"amd64", "arm64", "riscv64"}
    /\ kprobeMulti \in BOOLEAN
    /\ addr2name \in {SymbolsFoo, SymbolsFooBar}
    /\ printStackMap = EmptyMap
    /\ printSkbMap = EmptyMap
    /\ InitOutput

NextAddr ==
    \/ \E e \in AddrEvents : Len(writer) < MaxAddrPrints /\ PrintBegin(e)
    \/ PrintStackLookup
    \/ PrintStackDelete
    \/ PrintSkbLookup
    \/ PrintEnd

SpecAddr == InitAddr /\ [][NextAddr]_vars

(***************************************************************************)
(* Properties of address normalisation and symbol resolution (SpecAddr).   *)
(***************************************************************************)
\* The raw address minus 1 in unsigned arithmetic.
RawMinusOne(raw) == IF raw = 0 THEN MaxWord ELSE raw - 1

\* C6: the address looked up is the raw address minus 1 on amd64 with
\* single-probe attachment, the raw address on amd64 with bulk-probe
\* attachment, and the raw address on arm64 under either attachment.
C6_NormalizedAddress ==
    \A i \in 1..Len(writer) :
        LET r == writer[i] IN
        /\ GOARCH = "amd64" /\ ~kprobeMulti => r.addr = RawMinusOne(r.event.Addr)
        /\ GOARCH = "amd64" /\ kprobeMulti => r.addr = r.event.Addr
        /\ GOARCH = "arm64" => r.addr = r.event.Addr
        /\ r.event.Addr = 4096 =>
               r.addr = CASE GOARCH = "amd64" /\ ~kprobeMulti -> 4095
                          [] GOARCH = "amd64" /\ kprobeMulti -> 4096
                          [] GOARCH = "arm64" -> 4096
                          [] OTHER -> r.addr

\* amd64, single-probe, raw address 0x1000: looked up at 0xfff.
C6_Witness ==
    /\ GOARCH = "amd64"
    /\ ~kprobeMulti
    /\ Len(writer) = 1
    /\ writer[1].event.Addr = 4096
    /\ writer[1].addr = 4095
    /\ writer[1].nl

\* The hexadecimal literals of the addresses the events normalise to.
HexLiteral(a) ==
    CASE a = 0 -> "0x0"
      [] a = 2 -> "0x2"
      [] a = 3 -> "0x3"
      [] a = 4095 -> "0xfff"
      [] a = 4096 -> "0x1000"
      [] a = 8193 -> "0x2001"
      [] a = 8196 -> "0x2004"
      [] a = 8197 -> "0x2005"
      [] a = 8199 -> "0x2007"
      [] a = 8200 -> "0x2008"
      [] OTHER -> SprintfHex(a)

\* C7: the function name is the symbol at exactly the normalised address;
\* failing that, on amd64 only, the symbol at exactly that address minus 4;
\* failing that, the address as a hexadecimal literal.
C7_ResolutionOrder ==
    \A i \in 1..Len(writer) :
        LET r == writer[i]
            a == r.addr
            m4 == IF a >= 4 THEN a - 4 ELSE a - 4 + Modulus
        IN  /\ GOARCH \in {"amd64", "arm64"} =>
                 r.func = IF a \in DOMAIN addr2name THEN addr2name[a]
                          ELSE IF GOARCH = "amd64" /\ m4 \in DOMAIN addr2name
                               THEN addr2name[m4]
                          ELSE HexLiteral(a)
            /\ a = 8196 /\ addr2name = SymbolsFoo /\ GOARCH = "amd64" => r.func = "foo"
            /\ a = 8196 /\ addr2name = SymbolsFoo /\ GOARCH = "arm64" => r.func = "0x2004"
            /\ a = 8196 /\ addr2name = SymbolsFooBar => r.func = "bar"

\* Only 0x2000 -> foo in the table, arm64, address 0x2004: the literal.
C7_Witness ==
    /\ GOARCH = "arm64"
    /\ addr2name = SymbolsFoo
    /\ Len(writer) = 1
    /\ writer[1].addr = 8196
    /\ writer[1].func = "0x2004"
    /\ writer[1].nl

(***************************************************************************)
(* Protocol specification: one event per run, over every value of the      *)
(* 8-bit L4 protocol field, with the tuple section enabled.                *)
(***************************************************************************)
MaxUint8 == 255

ProtoEvents == {[BaseEvent EXCEPT !.L4Proto = p] : p \in 0..MaxUint8}

InitProto ==
    /\ flags \in [OutputTS : {"none"},
                  OutputMeta : {TRUE}, OutputTuple : {TRUE},
                  OutputStack : {TRUE}, OutputSkb : {TRUE}]
    /\ GOARCH = "amd64"
    /\ kprobeMulti = TRUE
    /\ addr2name = SymbolsFoo
    /\ printStackMap = EmptyMap
    /\ printSkbMap = EmptyMap
    /\ InitOutput

NextProto ==
    \/ \E e \in ProtoEvents : Len(writer) < MaxProtoPrints /\ PrintBegin(e)
    \/ PrintStackLookup
    \/ PrintStackDelete
    \/ PrintSkbLookup
    \/ PrintEnd

SpecProto == InitProto /\ [][NextProto]_vars

(***************************************************************************)
(* Property of the L4 protocol name (SpecProto).                           *)
(***************************************************************************)
\* C9: protocol 6 is written as tcp, 17 as udp, 1 as icmp, 58 as icmp6 and
\* every other 8-bit value as the empty string.
C9_ProtoNames ==
    \A i \in 1..Len(writer) :
        LET p == writer[i].event.L4Proto IN
        /\ p = 6 => writer[i].tuple = <<"tcp">>
        /\ p = 17 => writer[i].tuple = <<"udp">>
        /\ p = 1 => writer[i].tuple = <<"icmp">>
        /\ p = 58 => writer[i].tuple = <<"icmp6">>
        /\ p \notin {1, 6, 17, 58} => writer[i].tuple = <<"">>

\* A record of an ICMPv6 event, complete.
C9_Witness ==
    /\ Len(writer) = 1
    /\ writer[1].event.L4Proto = 58
    /\ writer[1].tuple = <<"icmp6">>
    /\ writer[1].nl

(***************************************************************************)
(* Side-table specification: Print runs against the producer, which stores *)
(* snapshots and dumps under the ids at any moment.                        *)
(***************************************************************************)
\* Stack snapshots, zero-padded: <<0, 0x2005, 0>>, <<0x2005, 0, 0x2001>>
Snapshots == {<<0, 8197, 0>>, <<8197, 0, 8193>>}
Dumps == {"dump"}

TableEvents ==
    {[BaseEvent EXCEPT !.PrintStackId = s, !.PrintSkbId = b] :
        s \in StackIds, b \in SkbIds}

InitTables ==
    /\ flags \in [OutputTS : {"none"},
                  OutputMeta : {FALSE}, OutputTuple : {FALSE},
                  OutputStack : BOOLEAN, OutputSkb : BOOLEAN]
    /\ GOARCH = "amd64"
    /\ kprobeMulti = TRUE
    /\ addr2name = SymbolsFooBar
    /\ printStackMap = EmptyMap
    /\ printSkbMap = EmptyMap
    /\ InitOutput

NextTables ==
    \/ \E e \in TableEvents : Len(writer) < MaxTablePrints /\ PrintBegin(e)
    \/ PrintStackLookup
    \/ PrintStackDelete
    \/ PrintSkbLookup
    \/ PrintEnd
    \/ \E id \in StackIds, s \in Snapshots : ProducerStoreStack(id, s)
    \/ \E id \in SkbIds, d \in Dumps : ProducerStoreSkb(id, d)

SpecTables == InitTables /\ [][NextTables]_vars

(***************************************************************************)
(* Properties of the side tables (SpecTables).                             *)
(***************************************************************************)
\* A stack entry Print has fetched and the producer has not rewritten is
\* gone from the table once the delete of that Print has run.
C2_ReleasedIsAbsent ==
    \A id \in StackIds :
        (/\ <<"stack", id>> \in consumed
         /\ ~(pc = "delete" /\ event.PrintStackId = id))
        => id \notin DOMAIN printStackMap

\* A lookup of such an entry finds nothing and writes no stack line.
C2_SecondLookupMisses ==
    (/\ pc = "stack"
     /\ pc' = "delete"
     /\ <<"stack", event.PrintStackId>> \in consumed)
    => (/\ ~syscalls'[Len(syscalls')].ok
        /\ writer'[Len(writer')].stack = <<>>)

\* C2: with stack expansion on, once Print has handled an event whose stack
\* id is > 0 and in the stack table, the id is absent from the table, and
\* a second Print of the same id, the producer not having written it in
\* between, finds nothing and writes no stack line.
C2_StackConsumedOnce == [](C2_ReleasedIsAbsent) /\ [][C2_SecondLookupMisses]_vars

\* Two records of stack id 1, the first with its stack lines, the second
\* with none, and no producer write of id 1 since the first fetch.
C2_Witness ==
    /\ flags.OutputStack
    /\ pc = "idle"
    /\ Len(writer) = 2
    /\ writer[1].event.PrintStackId = 1
    /\ writer[1].stack # <<>>
    /\ writer[2].event.PrintStackId = 1
    /\ writer[2].stack = <<>>
    /\ <<"stack", 1>> \in consumed
    /\ 1 \notin DOMAIN printStackMap

\* C3: with dump expansion on, a dump entry Print has fetched and written
\* is deleted from the dump table by the time that Print returns (the
\* producer not having rewritten it).
C3_DumpConsumedOnce ==
    \A id \in SkbIds :
        (<<"skb", id>> \in consumed /\ pc = "idle") => id \notin DOMAIN printSkbMap

\* C4: every delete Print issues on a side table follows a successful
\* lookup of the same id on the same table in the same Print.
C4_DeleteOnlyAfterFetch ==
    \A i \in 1..Len(syscalls) :
        syscalls[i].op = "Delete" =>
            \E j \in 1..(i - 1) :
                /\ syscalls[j].op = "Lookup"
                /\ syscalls[j].map = syscalls[i].map
                /\ syscalls[j].id = syscalls[i].id
                /\ syscalls[j].ok

\* C5: a record of an event with stack id 0 has no stack line and a record
\* of an event with dump id 0 has no dump text, whatever the tables hold.
C5_IdZeroRendersNothing ==
    \A i \in 1..Len(writer) :
        /\ writer[i].event.PrintStackId = 0 => writer[i].stack = <<>>
        /\ writer[i].event.PrintSkbId = 0 => writer[i].dump = <<>>

CallsOn(map) == SelectSeq(syscalls, LAMBDA c : c.map = map)

\* C11: every Print writes one record, the fixed columns and then the
\* newline, whatever its stack lookup, stack delete and dump lookup return:
\* a lookup that fails leaves its section out and nothing else.
C11_OneRecordPerPrint ==
    /\ \A i \in 1..Len(writer) :
           /\ writer[i].nl <=> (i < Len(writer) \/ pc = "idle")
           /\ writer[i].skb = SprintfHex(writer[i].event.SAddr)
           /\ writer[i].cpu = writer[i].event.CPU
           /\ writer[i].process \in {"[init]", "[<empty>]"}
           /\ writer[i].func # ""
    /\ (pc \in {"end", "idle"} /\ writer # <<>>) =>
           LET r == writer[Len(writer)] IN
           /\ flags.OutputSkb => Len(CallsOn("skb")) = 1
           /\ \A i \in 1..Len(CallsOn("skb")) :
                  CallsOn("skb")[i].ok <=> r.dump # <<>>
           /\ \A i \in 1..Len(CallsOn("stack")) :
                  (CallsOn("stack")[i].op = "Lookup" /\ CallsOn("stack")[i].ok)
                      => r.stack # <<>>

\* A complete record whose stack lookup failed and whose dump is written,
\* after one whose stack lines are written and whose dump lookup failed.
C11_Witness ==
    /\ flags.OutputStack
    /\ flags.OutputSkb
    /\ pc = "idle"
    /\ Len(writer) = 2
    /\ writer[1].stack # <<>>
    /\ writer[1].dump = <<>>
    /\ writer[1].nl
    /\ writer[2].event.PrintStackId = 1
    /\ ~syscalls[1].ok
    /\ writer[2].stack = <<>>
    /\ writer[2].dump = <<"dump">>
    /\ writer[2].nl

\* The name of the nearest symbol below an address of the snapshots, in
\* the table 0x2000 -> foo, 0x2004 -> bar.
NearestName(ip) == IF ip >= 8196 THEN "bar" ELSE "foo"

\* The lines of a snapshot: its non-zero addresses, in order, by name.
ExpectedLines(ips) ==
    LET nz == SelectSeq(ips, LAMBDA ip : ip # 0)
    IN  [i \in 1..Len(nz) |-> NearestName(nz[i])]

\* C12: a stack lookup that succeeds writes one line per non-zero address
\* of the snapshot it fetched, in stored order, each the nearest symbol
\* below the address; a zero address writes no line wherever it stands.
C12_Step ==
    (/\ pc = "stack"
     /\ pc' # "stack"
     /\ StackWanted(flags, event)
     /\ event.PrintStackId \in DOMAIN printStackMap)
    => (/\ stack' = printStackMap[event.PrintStackId]
        /\ writer'[Len(writer')].stack = ExpectedLines(stack'))

C12_StackLines == [][C12_Step]_vars

\* The snapshot <<0x2005, 0, 0x2001>> fetched and written as bar, foo.
C12_Witness ==
    /\ pc = "delete"
    /\ syscalls[1].ok
    /\ stack = <<8197, 0, 8193>>
    /\ writer[Len(writer)].stack = <<"bar", "foo">>

\* The original reading of C14: when Print has fetched the snapshot of an
\* id, the entry its delete removes is that snapshot, so that no snapshot
\* is deleted without having been written.
C14_OriginalStep ==
    (/\ pc = "delete"
     /\ pc' # "delete"
     /\ syscalls[Len(syscalls)].ok
     /\ event.PrintStackId \in DOMAIN printStackMap)
    => printStackMap[event.PrintStackId] = stack

C14_DeleteRemovesOnlyFetched == [][C14_OriginalStep]_vars

\* C14, amended: the delete removes whatever the id holds when it runs;
\* that is the snapshot the same Print fetched when the producer has not
\* stored under the id since the lookup.
C14_AmendedStep ==
    (pc = "delete" /\ pc' # "delete") =>
        /\ event.PrintStackId \notin DOMAIN printStackMap'
        /\ (/\ syscalls[Len(syscalls)].ok
            /\ <<"stack", event.PrintStackId>> \in consumed)
           => (/\ event.PrintStackId \in DOMAIN printStackMap
               /\ printStackMap[event.PrintStackId] = stack)

C14_DeleteRemovesCurrentEntry == [][C14_AmendedStep]_vars

\* Print fetched id 1, the producer stored under id 1, Print deleted id 1:
\* the id is absent although the producer wrote it after the lookup.
C14_Witness ==
    /\ pc = "skb"
    /\ event.PrintStackId = 1
    /\ Len(syscalls) = 2
    /\ syscalls[1].ok
    /\ writer[Len(writer)].stack # <<>>
    /\ <<"stack", 1>> \notin consumed
    /\ 1 \notin DOMAIN printStackMap

\* With a toggle off, Print issues no call on the table of the toggle.
C15_NoCalls ==
    /\ ~flags.OutputStack => CallsOn("stack") = <<>>
    /\ ~flags.OutputSkb => CallsOn("skb") = <<>>

\* With a toggle off, a step of Print leaves the table of the toggle as
\* it is.
C15_Step ==
    (pc' # pc) =>
        /\ ~flags.OutputStack => printStackMap' = printStackMap
        /\ ~flags.OutputSkb => printSkbMap' = printSkbMap

\* C15: with the stack toggle off Print neither looks up nor deletes in
\* the stack table, with the dump toggle off it does not look up in the
\* dump table, and the entries the producer stored stay as they are over
\* any number of Prints.
C15_TogglesOffTouchNothing == [](C15_NoCalls) /\ [][C15_Step]_vars

\* Both toggles off, two events of ids 1 printed, the entries of ids 1
\* still in both tables.
C15_Witness ==
    /\ ~flags.OutputStack
    /\ ~flags.OutputSkb
    /\ pc = "idle"
    /\ Len(writer) = 2
    /\ \A i \in 1..2 :
           /\ writer[i].event.PrintStackId = 1
           /\ writer[i].event.PrintSkbId = 1
           /\ writer[i].stack = <<>>
           /\ writer[i].dump = <<>>
           /\ writer[i].nl
    /\ 1 \in DOMAIN printStackMap
    /\ 1 \in DOMAIN printSkbMap

(***************************************************************************)
(* Wrap-around specification: relative mode, timestamps that go back, raw  *)
(* addresses below 4 and a symbol at the top of the address space.         *)
(***************************************************************************)
\* One symbol, two below the greatest address.
SymbolsTop == [a \in {MaxWord - 1} |-> "top"]

WrapEvents ==
    {[BaseEvent EXCEPT !.Timestamp = t, !.Addr = a] :
        t \in {100, 400}, a \in {0, 2, 3}}

InitWrap ==
    /\ flags \in [OutputTS : {"relative"},
                  OutputMeta : {FALSE}, OutputTuple : {FALSE},
                  OutputStack : {TRUE}, OutputSkb : {TRUE}]
    /\ GOARCH \in {"amd64", "arm64"}
    /\ kprobeMulti \in BOOLEAN
    /\ addr2name = SymbolsTop
    /\ printStackMap = EmptyMap
    /\ printSkbMap = EmptyMap
    /\ InitOutput

NextWrap ==
    \/ \E e \in WrapEvents : Len(writer) < MaxWrapPrints /\ PrintBegin(e)
    \/ PrintStackLookup
    \/ PrintStackDelete
    \/ PrintSkbLookup
    \/ PrintEnd

SpecWrap == InitWrap /\ [][NextWrap]_vars

\* C16: the arithmetic of Print is unsigned and wraps: in relative mode an
\* event whose raw timestamp is below the previous one of its skb shows
\* the difference plus 2^width, which is above zero; on amd64 with
\* single-probe attachment the raw address 0 is looked up at 2^width - 1;
\* and on amd64 the minus-4 lookup of an address below 4 queries the
\* address plus 2^width - 4.
C16_UnsignedWrap ==
    \A i \in 1..Len(writer) :
        LET r == writer[i] IN
        /\ i > 1 /\ r.event.Timestamp < writer[i - 1].event.Timestamp =>
               /\ r.ts = <<r.event.Timestamp - writer[i - 1].event.Timestamp
                            + Modulus>>
               /\ r.ts[1] > 0
        /\ GOARCH = "amd64" /\ ~kprobeMulti /\ r.event.Addr = 0 =>
               r.addr = Modulus - 1
        /\ GOARCH = "amd64" /\ r.addr < 4 /\ r.addr + Modulus - 4 = MaxWord - 1 =>
               r.func = "top"

\* amd64, single-probe: raw address 3 resolved through the wrapped minus-4
\* lookup, then raw address 0 looked up at the greatest address, with a
\* timestamp 300 below the previous one.
C16_Witness ==
    /\ GOARCH = "amd64"
    /\ ~kprobeMulti
    /\ Len(writer) = 2
    /\ writer[1].event.Addr = 3
    /\ writer[1].addr = 2
    /\ writer[1].func = "top"
    /\ writer[1].event.Timestamp = 400
    /\ writer[2].event.Timestamp = 100
    /\ writer[2].ts = <<Modulus - 300>>
    /\ writer[2].event.Addr = 0
    /\ writer[2].addr = MaxWord
    /\ writer[2].nl

====
